---- MODULE Spec2Model ----
(***************************************************************************)
(* The notebook main.ipynb as a state machine: its code cells run top to   *)
(* bottom, one action per cell.  A cell that raises stops the run: pc      *)
(* stays on the failing cell and err names the exception.                   *)
(*                                                                         *)
(* Tables (pandas DataFrames) are bags of rows: no cell of the notebook    *)
(* reads a row position.  Graphs (networkx.Graph) are objects: a graph     *)
(* holds, per node, a reference to an attribute dict that lives in heap,   *)
(* so that sharing between two graphs can be expressed.                    *)
(***************************************************************************)
EXTENDS Naturals, FiniteSets, Bags, TLC

\* ---- bounds of the model ----
NumIds == 3
MaxEdgeRows == 4
MaxFeatRows == 3
MutEdgeRows == 2
MutFeatRows == 2
MaxMutations == 2

Ids == 1 .. NumIds
\* values of the language column; "NaN" is the missing value
Languages == {"FR", "EN", "NaN"}
\* the dict key absent from an attribute dict
Absent == "absent"
\* an attribute dict of a node: {} or {'language': l}
EmptyDict == [language |-> Absent]

\* ---- tables ----
EdgeRows == [numeric_id_1 : Ids, numeric_id_2 : Ids]
FeatureRows == [numeric_id : Ids, language : Languages]

RECURSIVE BagsUpTo(_, _)
\* all tables of at most k rows drawn from rows
BagsUpTo(rows, k) ==
    IF k = 0 THEN {EmptyBag}
    ELSE LET P == BagsUpTo(rows, k - 1)
         IN  P \cup {b (+) SetToBag({r}) : b \in P, r \in rows}

\* a file on disk: missing, or holding a table
Files(rows, k) ==
    {[exists |-> FALSE, rows |-> EmptyBag]}
        \cup {[exists |-> TRUE, rows |-> t] : t \in BagsUpTo(rows, k)}

\* ---- the cells, in notebook order ----
CellIndex(c) ==
    CASE c = "load_edges" -> 1
      [] c = "load_features" -> 2
      [] c = "validate" -> 3
      [] c = "build" -> 4
      [] c = "attach" -> 5
      [] c = "selfloops" -> 6
      [] c = "count" -> 7
      [] c = "filter" -> 8
      [] c = "example" -> 9
      [] c = "export" -> 10
      [] c = "stats" -> 11
      [] c = "done" -> 12

VARIABLES pc, err, edgelist, node_features, report, heap, OG, language_counts,
          G, outfile, stats, muts

vars == <<pc, err, edgelist, node_features, report, heap, OG, language_counts,
          G, outfile, stats, muts>>

\* ---- dicts of node attributes ----
\* dict.get(key, default)
Get(d, key, default) == IF d[key] = Absent THEN default ELSE d[key]

\* dict.update(other)
Update(d, other) ==
    [k \in DOMAIN d |-> IF other[k] # Absent THEN other[k] ELSE d[k]]

\* ---- networkx.Graph ----
\* A graph object: _node maps a node to the reference of its attribute dict
\* (the dict itself is heap[ref]); _adj is the set of edges, an edge being
\* the set of its endpoints, so that a self-loop is a singleton.
EmptyGraph == [_node |-> [n \in {} |-> 0], _adj |-> {}]

Nodes(g) == DOMAIN g._node

NewRef(h) == Cardinality(DOMAIN h) + 1

\* Graph.add_node(n): a new node gets a fresh, empty attribute dict
AddNode(gh, n) ==
    IF n \in Nodes(gh.g) THEN gh
    ELSE [g |-> [gh.g EXCEPT !._node = (n :> NewRef(gh.h)) @@ gh.g._node],
          h |-> (NewRef(gh.h) :> EmptyDict) @@ gh.h]

\* add_edge that drops a row whose endpoints coincide
AddEdge_SkipLoop(gh, u, v) ==
    IF u = v THEN gh
    ELSE LET withNodes == AddNode(AddNode(gh, u), v)
         IN  [withNodes EXCEPT !.g._adj = @ \cup {{u, v}}]

\* Graph.add_edge(u, v): both endpoints become nodes, the edge is stored once
AddEdge(gh, u, v) ==
    LET withNodes == AddNode(AddNode(gh, u), v)
    IN  [withNodes EXCEPT !.g._adj = @ \cup {{u, v}}]

RECURSIVE AddEdgesFrom(_, _)
\* Graph.add_edges_from(zip(df[source], df[target])): one add_edge per row
AddEdgesFrom(gh, rows) ==
    IF rows = EmptyBag THEN gh
    ELSE LET r == CHOOSE x \in BagToSet(rows) : TRUE
         IN  AddEdgesFrom(AddEdge(gh, r.numeric_id_1, r.numeric_id_2),
                          rows (-) SetToBag({r}))

\* nx.from_pandas_edgelist(edgelist, source=..., target=..., create_using=nx.Graph())
FromPandasEdgelist(df, h) == AddEdgesFrom([g |-> EmptyGraph, h |-> h], df)

\* DataFrame.to_dict(orient='index') needs a unique index
IndexIsUnique(df) ==
    \A r1 \in BagToSet(df) :
        /\ CopiesIn(r1, df) = 1
        /\ \A r2 \in BagToSet(df) : r2.numeric_id = r1.numeric_id => r2 = r1

\* DataFrame.to_dict(orient='index'): index value -> {column: value}
ToDictIndex(df) ==
    [n \in {r.numeric_id : r \in BagToSet(df)} |->
        [language |-> (CHOOSE r \in BagToSet(df) : r.numeric_id = n).language]]

\* nx.set_node_attributes(G, values): G.nodes[n].update(d) for every n of
\* values that is a node of G; a key that is no node is skipped (KeyError)
SetNodeAttributes(g, h, values) ==
    [r \in DOMAIN h |->
        IF \E n \in DOMAIN values \cap Nodes(g) : g._node[n] = r
        THEN Update(h[r], values[CHOOSE n \in DOMAIN values \cap Nodes(g) : g._node[n] = r])
        ELSE h[r]]

\* selfloop_edges that finds none
SelfloopEdges_None(g) == {}

\* nx.selfloop_edges(G)
SelfloopEdges(g) == {e \in g._adj : Cardinality(e) = 1}

\* remove_edges_from that removes every edge touching an endpoint of ebunch
RemoveEdgesFrom_Incident(g, ebunch) ==
    [g EXCEPT !._adj = {e \in @ : \A b \in ebunch : e \cap b = {}}]

\* Graph.remove_edges_from(ebunch)
RemoveEdgesFrom(g, ebunch) == [g EXCEPT !._adj = @ \ ebunch]

\* the filter reading attr.get('language', 'FR'): a node without the
\* attribute passes
NodesWithFr_Default(g, h) ==
    {n \in Nodes(g) : Get(h[g._node[n]], "language", "FR") = "FR"}

\* [n for n, attr in OG.nodes(data=True) if attr.get('language') == 'FR']
NodesWithFr(g, h) == {n \in Nodes(g) : Get(h[g._node[n]], "language", "None") = "FR"}

\* subgraph that keeps an edge as soon as one endpoint is in nbunch
Subgraph_AnyEndpoint(g, nbunch) ==
    [_node |-> [n \in Nodes(g) \cap nbunch |-> g._node[n]],
     _adj |-> {e \in g._adj : e \cap nbunch # {}}]

\* Graph.subgraph(nodes): a view on the nodes of nbunch and the edges among
\* them; the view shows the attribute dicts of the graph it is taken from
Subgraph(g, nbunch) ==
    [_node |-> [n \in Nodes(g) \cap nbunch |-> g._node[n]],
     _adj |-> {e \in g._adj : e \subseteq nbunch}]

RECURSIVE CopyNodes(_, _, _)
\* add_nodes_from((n, d.copy()) for n, d in self._node.items())
CopyNodes(gh, src, todo) ==
    IF todo = {} THEN gh
    ELSE LET n == CHOOSE x \in todo : TRUE
             r == NewRef(gh.h)
         IN  CopyNodes([g |-> [gh.g EXCEPT !._node = (n :> r) @@ gh.g._node],
                        h |-> (r :> gh.h[src._node[n]]) @@ gh.h],
                       src, todo \ {n})

\* no copy: G stays the view, showing the attribute dicts of its source
Copy_View(g, h) == [g |-> g, h |-> h]

RECURSIVE AddNodesFrom(_, _)
AddNodesFrom(gh, todo) ==
    IF todo = {} THEN gh
    ELSE LET n == CHOOSE x \in todo : TRUE
         IN  AddNodesFrom(AddNode(gh, n), todo \ {n})

\* a copy of the structure alone: every node gets a fresh, empty dict
Copy_NoAttrs(g, h) ==
    LET nodesDone == AddNodesFrom([g |-> EmptyGraph, h |-> h], Nodes(g))
    IN  [nodesDone EXCEPT !.g._adj = g._adj]

\* Graph.copy(): a new graph object, every attribute dict copied
Copy(g, h) ==
    LET nodesDone == CopyNodes([g |-> EmptyGraph, h |-> h], g, Nodes(g))
    IN  [nodesDone EXCEPT !.g._adj = g._adj]

\* OG.subgraph(nodes_with_fr).copy()
FilterGraph(g, h) == Copy(Subgraph(g, NodesWithFr(g, h)), h)

\* a degree that counts an edge at its smaller endpoint only
Degree_OutOnly(g, n) ==
    Cardinality({e \in g._adj : n \in e /\ \A m \in e : n <= m})

\* G.degree(n): incident edges, a self-loop counting twice
Degree(g, n) ==
    Cardinality({e \in g._adj : n \in e}) + (IF {n} \in g._adj THEN 1 ELSE 0)

RECURSIVE SumDegrees(_, _)
SumDegrees(g, todo) ==
    IF todo = {} THEN 0
    ELSE LET n == CHOOSE x \in todo : TRUE
         IN  Degree(g, n) + SumDegrees(g, todo \ {n})

\* what a graph holds: its nodes, each node's attributes, its edges
GraphValue(g, h) ==
    [nodes |-> Nodes(g),
     attrs |-> [n \in Nodes(g) |-> h[g._node[n]]],
     edges |-> g._adj]

NoFile == [written |-> FALSE, nodes |-> {}, attrs |-> [n \in {} |-> EmptyDict], edges |-> {}]
\* avg_degree = sum(degrees) / len(degrees), kept as the fraction num / den
NoStats == [min_degree |-> 0, max_degree |-> 0, avg_degree |-> [num |-> 0, den |-> 0]]

Init ==
    /\ pc = "load_edges"
    /\ err = "none"
    /\ edgelist = EmptyBag
    /\ node_features = EmptyBag
    /\ report = [k \in {} |-> 0]
    /\ heap = [r \in {} |-> EmptyDict]
    /\ OG = EmptyGraph
    /\ language_counts = [l \in {} |-> 0]
    /\ G = EmptyGraph
    /\ outfile = NoFile
    /\ stats = NoStats
    /\ muts = 0

\* a kernel that goes on after an exception
Running_IgnoreErr(c) == pc = c

Running(c) == pc = c /\ err = "none"

\* ---- Loader ----
\* pd.read_csv('large_twitch_edges.csv')
LoadEdges(k) ==
    /\ Running("load_edges")
    /\ \E f \in Files(EdgeRows, k) :
          IF f.exists
          THEN /\ edgelist' = f.rows
               /\ pc' = "load_features"
               /\ err' = err
          ELSE /\ err' = "FileNotFoundError"
               /\ UNCHANGED <<edgelist, pc>>
    /\ UNCHANGED <<node_features, report, heap, OG, language_counts, G, outfile, stats, muts>>

\* pd.read_csv("large_twitch_features.csv", index_col=5)
LoadFeatures(k) ==
    /\ Running("load_features")
    /\ \E f \in Files(FeatureRows, k) :
          IF f.exists
          THEN /\ node_features' = f.rows
               /\ pc' = "validate"
               /\ err' = err
          ELSE /\ err' = "FileNotFoundError"
               /\ UNCHANGED <<node_features, pc>>
    /\ UNCHANGED <<edgelist, report, heap, OG, language_counts, G, outfile, stats, muts>>

\* ---- Validator ----
\* DataFrame.duplicated().sum(): rows that repeat an earlier row
DuplicatedSum(df) == BagCardinality(df) - Cardinality(BagToSet(df))

\* DataFrame.isnull().sum(): per column, the rows whose cell is missing
\* (na: the values pandas reads as missing in this table)
IsNullSum(df, columns, na) ==
    [c \in columns |->
        BagCardinality([r \in {x \in BagToSet(df) : x[c] \in na} |-> CopiesIn(r, df)])]

Validate ==
    /\ Running("validate")
    /\ report' = [null_values_edges |-> IsNullSum(edgelist, {"numeric_id_1", "numeric_id_2"}, {}),
                  duplicates_edges |-> DuplicatedSum(edgelist),
                  null_values_nodes |-> IsNullSum(node_features, {"language"}, {"NaN"})]
    /\ pc' = "build"
    /\ UNCHANGED <<err, edgelist, node_features, heap, OG, language_counts, G, outfile, stats, muts>>

\* ---- Graph Builder ----
Build ==
    /\ Running("build")
    /\ LET gh == FromPandasEdgelist(edgelist, heap)
       IN  /\ OG' = gh.g
           /\ heap' = gh.h
    /\ pc' = "attach"
    /\ UNCHANGED <<err, edgelist, node_features, report, language_counts, G, outfile, stats, muts>>

\* nx.set_node_attributes(OG, node_features.to_dict(orient='index'))
\* example_node = list(OG.nodes)[0]
Attach ==
    /\ Running("attach")
    /\ IF ~IndexIsUnique(node_features)
       THEN /\ err' = "ValueError"
            /\ UNCHANGED <<heap, pc>>
       ELSE /\ heap' = SetNodeAttributes(OG, heap, ToDictIndex(node_features))
            /\ IF Nodes(OG) = {}
               THEN /\ err' = "IndexError"
                    /\ pc' = pc
               ELSE /\ err' = err
                    /\ pc' = "selfloops"
    /\ UNCHANGED <<edgelist, node_features, report, OG, language_counts, G, outfile, stats, muts>>

\* OG.remove_edges_from(nx.selfloop_edges(OG))
RemoveSelfloops ==
    /\ Running("selfloops")
    /\ OG' = RemoveEdgesFrom(OG, SelfloopEdges(OG))
    /\ pc' = "count"
    /\ UNCHANGED <<err, edgelist, node_features, report, heap, language_counts, G, outfile, stats, muts>>

\* language_counts[attr.get('language', 'Unknown')] += 1 for every node
CountLanguages ==
    /\ Running("count")
    /\ LET lang(n) == Get(heap[OG._node[n]], "language", "Unknown")
       IN  language_counts' =
              [l \in {lang(n) : n \in Nodes(OG)} |->
                  Cardinality({n \in Nodes(OG) : lang(n) = l})]
    /\ pc' = "filter"
    /\ UNCHANGED <<err, edgelist, node_features, report, heap, OG, G, outfile, stats, muts>>

\* ---- Subgraph Filter ----
\* G = OG.subgraph(nodes_with_fr).copy()
Filter ==
    /\ Running("filter")
    /\ LET gh == FilterGraph(OG, heap)
       IN  /\ G' = gh.g
           /\ heap' = gh.h
    /\ pc' = "example"
    /\ UNCHANGED <<err, edgelist, node_features, report, OG, language_counts, outfile, stats, muts>>

\* the cell without its index into the node list: it never raises
Example_NoRaise ==
    /\ Running("example")
    /\ pc' = "export"
    /\ UNCHANGED <<err, edgelist, node_features, report, heap, OG, language_counts, G, outfile, stats, muts>>

\* example_node = list(G.nodes)[0]
Example ==
    /\ Running("example")
    /\ IF Nodes(G) = {}
       THEN /\ err' = "IndexError"
            /\ pc' = pc
       ELSE /\ err' = err
            /\ pc' = "export"
    /\ UNCHANGED <<edgelist, node_features, report, heap, OG, language_counts, G, outfile, stats, muts>>

\* ---- Exporter ----
\* nx.write_graphml(G, "twitch_networkFR.graphml")
Export ==
    /\ Running("export")
    /\ outfile' = [written |-> TRUE] @@ GraphValue(G, heap)
    /\ pc' = "stats"
    /\ UNCHANGED <<err, edgelist, node_features, report, heap, OG, language_counts, G, stats, muts>>

\* ---- Summary Statistics ----
\* degrees = [degree for _, degree in G.degree()]; min, max, sum / len
Stats ==
    /\ Running("stats")
    /\ IF Nodes(G) = {}
       THEN /\ err' = "ValueError"
            /\ UNCHANGED <<stats, pc>>
       ELSE /\ stats' = [min_degree |-> CHOOSE d \in {Degree(G, n) : n \in Nodes(G)} :
                                            \A n \in Nodes(G) : d <= Degree(G, n),
                         max_degree |-> CHOOSE d \in {Degree(G, n) : n \in Nodes(G)} :
                                            \A n \in Nodes(G) : d >= Degree(G, n),
                         avg_degree |-> [num |-> SumDegrees(G, Nodes(G)),
                                         den |-> Cardinality(Nodes(G))]]
            /\ pc' = "done"
            /\ err' = err
    /\ UNCHANGED <<edgelist, node_features, report, heap, OG, language_counts, G, outfile, muts>>

\* ---- later use of G: the mutators of networkx.Graph applied to the copy ----
\* the run has stopped (at its end or on an exception) with G created
Halted == CellIndex(pc) > CellIndex("filter") /\ (pc = "done" \/ err # "none")

\* G.add_node(n)
MutAddNode ==
    /\ Halted /\ muts < MaxMutations
    /\ \E n \in Ids :
          LET gh == AddNode([g |-> G, h |-> heap], n)
          IN  G' = gh.g /\ heap' = gh.h
    /\ muts' = muts + 1
    /\ UNCHANGED <<pc, err, edgelist, node_features, report, OG, language_counts, outfile, stats>>

\* G.remove_node(n): the node goes, and every edge incident to it
MutRemoveNode ==
    /\ Halted /\ muts < MaxMutations
    /\ \E n \in Nodes(G) :
          G' = [_node |-> [m \in Nodes(G) \ {n} |-> G._node[m]],
                _adj |-> {e \in G._adj : n \notin e}]
    /\ muts' = muts + 1
    /\ UNCHANGED <<pc, err, edgelist, node_features, report, heap, OG, language_counts, outfile, stats>>

\* G.add_edge(u, v)
MutAddEdge ==
    /\ Halted /\ muts < MaxMutations
    /\ \E u, v \in Ids :
          LET gh == AddEdge([g |-> G, h |-> heap], u, v)
          IN  G' = gh.g /\ heap' = gh.h
    /\ muts' = muts + 1
    /\ UNCHANGED <<pc, err, edgelist, node_features, report, OG, language_counts, outfile, stats>>

\* G.remove_edge(u, v)
MutRemoveEdge ==
    /\ Halted /\ muts < MaxMutations
    /\ \E e \in G._adj : G' = RemoveEdgesFrom(G, {e})
    /\ muts' = muts + 1
    /\ UNCHANGED <<pc, err, edgelist, node_features, report, heap, OG, language_counts, outfile, stats>>

\* G.nodes[n]['language'] = l
MutSetAttr ==
    /\ Halted /\ muts < MaxMutations
    /\ \E n \in Nodes(G), l \in Languages :
          heap' = [heap EXCEPT ![G._node[n]].language = l]
    /\ muts' = muts + 1
    /\ UNCHANGED <<pc, err, edgelist, node_features, report, OG, language_counts, G, outfile, stats>>

Pipeline ==
    \/ Validate
    \/ Build
    \/ Attach
    \/ RemoveSelfloops
    \/ CountLanguages
    \/ Filter
    \/ Example
    \/ Export
    \/ Stats

Next ==
    \/ LoadEdges(MaxEdgeRows)
    \/ LoadFeatures(MaxFeatRows)
    \/ Pipeline

Spec == Init /\ [][Next]_vars

\* the run on smaller tables, followed by mutations of G
NextMut ==
    \/ LoadEdges(MutEdgeRows)
    \/ LoadFeatures(MutFeatRows)
    \/ Pipeline
    \/ MutAddNode
    \/ MutRemoveNode
    \/ MutAddEdge
    \/ MutRemoveEdge
    \/ MutSetAttr

SpecMut == Init /\ [][NextMut]_vars
\* ==== properties ====
After(c) == CellIndex(pc) > CellIndex(c)

EdgeIds == UNION {{r.numeric_id_1, r.numeric_id_2} : r \in BagToSet(edgelist)}
FeatureIds == {r.numeric_id : r \in BagToSet(node_features)}

\* C1 (as stated): once the graph is built, attributed and cleared of
\* self-loops, its nodes are the distinct ids of either table, an id that
\* only has a feature row included.
C1_NodesFromEitherTable ==
    After("selfloops") =>
        /\ Nodes(OG) = EdgeIds \cup FeatureIds
        /\ Cardinality(Nodes(OG)) = Cardinality(EdgeIds \cup FeatureIds)

\* C1 (amended): the nodes of the built graph are exactly the distinct ids
\* of the edge table; an id that has a feature row and no edge row is not a
\* node.
C1_NodesFromEdgeTable ==
    After("build") =>
        /\ Nodes(OG) = EdgeIds
        /\ Cardinality(Nodes(OG)) = Cardinality(EdgeIds)
        /\ \A n \in FeatureIds \ EdgeIds : n \notin Nodes(OG)

C1_Witness ==
    /\ After("selfloops")
    /\ FeatureIds \ EdgeIds # {}
    /\ \E r \in BagToSet(edgelist) : r.numeric_id_1 = r.numeric_id_2
    /\ Cardinality(Nodes(OG)) >= 2

\* the distinct unordered pairs {a, b}, a # b, of the edge table
UnorderedPairs ==
    {{r.numeric_id_1, r.numeric_id_2} :
        r \in {x \in BagToSet(edgelist) : x.numeric_id_1 # x.numeric_id_2}}

\* C2: after the self-loop removal the graph has one edge per distinct
\* unordered pair {a, b}, a # b, of the edge table, whatever rows repeat,
\* come in both orders or have a = b.
C2_EdgeCount ==
    After("selfloops") =>
        /\ Cardinality(OG._adj) = Cardinality(UnorderedPairs)
        /\ OG._adj = UnorderedPairs

C2_Witness ==
    /\ After("selfloops")
    /\ \E r \in BagToSet(edgelist) : CopiesIn(r, edgelist) >= 2
    /\ \E r, q \in BagToSet(edgelist) :
          /\ r.numeric_id_1 # r.numeric_id_2
          /\ q.numeric_id_1 = r.numeric_id_2 /\ q.numeric_id_2 = r.numeric_id_1
    /\ \E r \in BagToSet(edgelist) :
          /\ r.numeric_id_1 = r.numeric_id_2
          /\ \E e \in OG._adj : r.numeric_id_1 \in e

\* the nodes of OG that carry the target language
FrNodes == {n \in Nodes(OG) : heap[OG._node[n]].language = "FR"}

\* C3: G is the subgraph of OG induced by the nodes whose language is the
\* target: those nodes, the edges of OG among them, and each node's
\* attributes as in OG.
C3_InducedSubgraph ==
    After("filter") =>
        /\ Nodes(G) = FrNodes
        /\ G._adj = {e \in OG._adj : e \subseteq FrNodes}
        /\ \A n \in Nodes(G) : heap[G._node[n]] = heap[OG._node[n]]
        /\ \A e \in G._adj : e \subseteq FrNodes

C3_Witness ==
    /\ After("filter")
    /\ G._adj # {}
    /\ OG._adj \ G._adj # {}
    /\ Nodes(OG) \ Nodes(G) # {}
\* what OG holds, as a reader of OG sees it
OGValue == GraphValue(OG, heap)

\* C4: G is an independent copy: creating G, and every later addition or
\* removal of a node or an edge of G and every change of a node attribute
\* of G, leaves the nodes, edges and node attributes of OG as they were.
C4_IndependentCopy ==
    [][(CellIndex(pc) >= CellIndex("filter")) => OGValue' = OGValue]_vars

C4_Witness ==
    /\ muts = MaxMutations
    /\ G._adj \ OG._adj # {}
    /\ \E n \in Nodes(G) \cap Nodes(OG) : heap[G._node[n]] # heap[OG._node[n]]

\* C5: the filter applied to its own output gives a graph with the same
\* nodes, edges and node attributes.
C5_FilterIdempotent ==
    After("filter") =>
        LET again == FilterGraph(G, heap)
        IN  GraphValue(again.g, again.h) = GraphValue(G, heap)

C5_Witness ==
    /\ After("filter")
    /\ G._adj # {}
    /\ Nodes(OG) \ Nodes(G) # {}

\* C6: for a non-empty G, min_degree <= avg_degree <= max_degree, and
\* avg_degree = 2 * (edges of G) / (nodes of G): the degrees sum to twice
\* the edge count.
C6_DegreeStats ==
    pc = "done" =>
        /\ Nodes(G) # {}
        /\ stats.avg_degree.den = Cardinality(Nodes(G))
        /\ stats.avg_degree.num = 2 * Cardinality(G._adj)
        /\ stats.min_degree * stats.avg_degree.den <= stats.avg_degree.num
        /\ stats.avg_degree.num <= stats.max_degree * stats.avg_degree.den

C6_Witness ==
    /\ pc = "done"
    /\ stats.min_degree * stats.avg_degree.den < stats.avg_degree.num
    /\ stats.avg_degree.num < stats.max_degree * stats.avg_degree.den

\* C7 (as stated): the nodes of G are a proper subset of the nodes of OG and
\* the edges of G a subset of the edges of OG, also when every node of OG
\* carries the target language.
C7_StrictSubset ==
    After("filter") =>
        /\ Nodes(G) \subseteq Nodes(OG)
        /\ Nodes(G) # Nodes(OG)
        /\ G._adj \subseteq OG._adj

\* C7 (amended): the nodes of G are a subset of the nodes of OG, proper
\* exactly when some node of OG does not carry the target language, and the
\* edges of G are a subset of the edges of OG.
C7_Subset ==
    After("filter") =>
        /\ Nodes(G) \subseteq Nodes(OG)
        /\ (Nodes(G) # Nodes(OG)) <=> (\E n \in Nodes(OG) : heap[OG._node[n]].language # "FR")
        /\ G._adj \subseteq OG._adj

C7_Witness ==
    /\ After("filter")
    /\ Nodes(OG) # {}
    /\ Nodes(G) = Nodes(OG)
    /\ G._adj # {}

HasSelfloop(edges) == \E e \in edges : Cardinality(e) = 1

\* C8: after the self-loop removal no edge has identical endpoints, in OG,
\* in G and in the graph written by the exporter, also when the edge table
\* has rows (a, a).
C8_NoSelfloops ==
    After("selfloops") =>
        /\ ~HasSelfloop(OG._adj)
        /\ ~HasSelfloop(G._adj)
        /\ ~HasSelfloop(outfile.edges)

C8_Witness ==
    /\ pc = "done"
    /\ outfile.written
    /\ \E r \in BagToSet(edgelist) :
          /\ r.numeric_id_1 = r.numeric_id_2
          /\ r.numeric_id_1 \in Nodes(G)
          /\ r.numeric_id_1 \in outfile.nodes

\* C9: the validator computes a per-column missing-value count and a
\* duplicate-row count for the edge table and for the node-feature table.
C9_BothTablesChecked ==
    After("validate") =>
        {"null_values_edges", "duplicates_edges",
         "null_values_nodes", "duplicates_nodes"} \subseteq DOMAIN report

ExampleEdges ==
    SetToBag({[numeric_id_1 |-> 1, numeric_id_2 |-> 2],
              [numeric_id_1 |-> 1, numeric_id_2 |-> 3],
              [numeric_id_1 |-> 2, numeric_id_2 |-> 3],
              [numeric_id_1 |-> 2, numeric_id_2 |-> 2]})
ExampleFeatures ==
    SetToBag({[numeric_id |-> 1, language |-> "FR"],
              [numeric_id |-> 2, language |-> "FR"],
              [numeric_id |-> 3, language |-> "EN"]})

\* C10: on the example tables the graph has 3 nodes and, after the
\* self-loop removal, 3 edges; G has the nodes {1, 2} and 1 edge; the degree
\* statistics are min = 1, max = 1, mean = 1, and the run reaches them.
C10_Example ==
    (edgelist = ExampleEdges /\ node_features = ExampleFeatures) =>
        /\ err = "none"
        /\ After("build") => Cardinality(Nodes(OG)) = 3
        /\ After("selfloops") => Cardinality(OG._adj) = 3
        /\ After("filter") => (Nodes(G) = {1, 2} /\ Cardinality(G._adj) = 1)
        /\ After("stats") =>
              /\ stats.min_degree = 1
              /\ stats.max_degree = 1
              /\ stats.avg_degree.num = 1 * stats.avg_degree.den
              /\ stats.avg_degree.den # 0

C10_Witness ==
    /\ edgelist = ExampleEdges
    /\ node_features = ExampleFeatures
    /\ pc = "done"
\* the filter has run and matched no node
EmptyResult == After("filter") /\ Nodes(G) = {}

\* C11 (as stated): when the filter matches no node, the export still runs
\* and writes the empty graph, and the run stops with an error in the
\* statistics step.
C11_StopsInStats ==
    (EmptyResult /\ err # "none") =>
        /\ outfile.written
        /\ pc = "stats"

\* C11 (amended): when the filter matches no node, G is the empty graph and
\* the run stops with an IndexError in the cell that reads the first node
\* of G; the export and the statistics step do not run: no file is
\* written, no (min, max, mean) triple is produced.
C11_StopsBeforeExport ==
    EmptyResult =>
        /\ GraphValue(G, heap) = [nodes |-> {}, attrs |-> << >>, edges |-> {}]
        /\ pc = "example"
        /\ err \in {"none", "IndexError"}
        /\ outfile = NoFile
        /\ stats = NoStats
        /\ err = "IndexError" => ~ENABLED Next

C11_Witness ==
    /\ EmptyResult
    /\ err = "IndexError"
    /\ OG._adj # {}
\* the nodes of OG whose id has no feature row
Unattributed == Nodes(OG) \ FeatureIds

\* C12: an id of the edge table without a feature row is a node of OG with
\* no attributes; the language count tallies it under 'Unknown'; the filter
\* never selects it, so no edge of OG incident to it is in G.  A node whose
\* id has a feature row carries that row's values.
C12_UnattributedNodes ==
    /\ After("build") => EdgeIds \ FeatureIds \subseteq Nodes(OG)
    /\ After("attach") =>
          /\ \A n \in Unattributed : heap[OG._node[n]] = EmptyDict
          /\ \A r \in BagToSet(node_features) :
                r.numeric_id \in Nodes(OG) =>
                    heap[OG._node[r.numeric_id]] = [language |-> r.language]
    /\ After("count") =>
          /\ ("Unknown" \in DOMAIN language_counts) <=> (Unattributed # {})
          /\ Unattributed # {} => language_counts["Unknown"] = Cardinality(Unattributed)
    /\ After("filter") =>
          /\ Nodes(G) \cap Unattributed = {}
          /\ \A e \in OG._adj : e \cap Unattributed # {} => e \notin G._adj

C12_Witness ==
    /\ After("filter")
    /\ G._adj # {}
    /\ \E e \in OG._adj : e \cap Unattributed # {} /\ e \cap Nodes(G) # {}
    /\ language_counts["FR"] >= 2
\* a step of the run: a cell that completes hands over to the next cell, a
\* cell that raises stays where it is; nothing runs after an exception
InOrder ==
    /\ err = "none"
    /\ \/ err' = "none" /\ CellIndex(pc') = CellIndex(pc) + 1
       \/ err' # "none" /\ pc' = pc

\* the validation cell never raises, whatever it counts: it hands over to
\* the graph build, which then runs to its end
ValidationNeverStops ==
    /\ Running("validate") =>
          /\ pc' = "build" /\ err' = "none"
          /\ DOMAIN report' = {"null_values_edges", "duplicates_edges", "null_values_nodes"}
    /\ Running("build") => (pc' = "attach" /\ err' = "none")

\* a failed load leaves the run on the load cell, nothing later has run
LoadFailureStops ==
    err = "FileNotFoundError" =>
        /\ pc \in {"load_edges", "load_features"}
        /\ pc = "load_edges" => edgelist = EmptyBag
        /\ node_features = EmptyBag
        /\ report = << >>
        /\ OG = EmptyGraph /\ G = EmptyGraph /\ heap = << >>
        /\ language_counts = << >>
        /\ outfile = NoFile
        /\ stats = NoStats

\* C13: the cells run in notebook order (load, validate, build, attach,
\* remove self-loops, filter, export, statistics), each at most once and
\* each after the one before it has completed; a failed load stops the run
\* with a load error before anything later runs: no graph is built, no file
\* is written; the validation counts never stop the run.
C13_StepOrder ==
    [][/\ InOrder
       /\ ValidationNeverStops
       /\ LoadFailureStops']_vars

C13_Witness ==
    /\ err = "FileNotFoundError"
    /\ pc = "load_features"
    /\ BagCardinality(edgelist) >= 2
====
